---- MODULE Spec2Model ----
(***************************************************************************)
(* Model of the run handler of app.py (ITSM Ticket Orchestrator): the      *)
(* submit guard, the event loop that projects the agent's streamed         *)
(* RunResponse chunks onto the step list, the accumulated content and the  *)
(* progress bar, the final report and the except block.                   *)
(*                                                                         *)
(* Strings are sequences of tokens.  A token is an atomic piece of text    *)
(* (a keyword, the delegation prefix, a word, a blank); concatenation is   *)
(* \o, `x in s` is the occurrence of the token x in s, and                  *)
(* s.startswith(x) is s[1] = x.  No token of the model is a proper part of *)
(* the delegation prefix or of one of the five keywords.                   *)
(* Progress values are kept in hundredths (0.1 is 10, 1.0 is 100).         *)
(***************************************************************************)
EXTENDS Integers, Sequences, FiniteSets, TLC

VARIABLES
    profile,           \* which family of inputs the environment draws from
    aborted_before,    \* an earlier run of the session was aborted by an exception
    email_from,        \* text inputs as read by the last execution of the script
    email_to,
    email_subject,
    email_body,
    pc,                \* position of the script: idle, stopped, streaming, finished, failed
    warning,           \* st.warning of the submit guard is on the page
    run_calls,         \* calls of Sister.run made by this execution of the script
    execution_steps,
    step_count,
    current_agent,
    full_content,
    run_id,
    status_container,  \* absent, shown, empty
    progress_bar,
    status_text,
    steps_placeholder, \* the expanders last rendered into the placeholder
    renders,           \* renderings of the placeholder made during this run
    consumed,          \* the chunks pulled from response_stream so far, in order
    final_report,      \* absent, content, no_content
    download_button,   \* the st.download_button on the page, if any
    error              \* the exception shown by st.error / st.exception, if any

vars == <<profile, aborted_before, email_from, email_to, email_subject, email_body, pc,
          warning,
          run_calls, execution_steps, step_count, current_agent, full_content,
          run_id, status_container, progress_bar, status_text, steps_placeholder,
          renders, consumed, final_report, download_button, error>>

inputVars == <<email_from, email_to, email_subject, email_body>>
runVars == <<execution_steps, step_count, current_agent, full_content>>
liveVars == <<progress_bar, status_text, steps_placeholder, renders>>
endVars == <<status_container, final_report, download_button, error>>

(***************************************************************************)
(* Bounds                                                                  *)
(***************************************************************************)
MaxPull == 3        \* chunks pulled per run, profiles with many kinds of chunk
MaxPullDetect == 2  \* chunks pulled per run, the keyword-scan profile
MaxPullLong == 10   \* chunks pulled per run, the step-counting profile
MaxPullSubmit == 2  \* chunks pulled per run, the form profile
MaxPullLabels == 3  \* chunks pulled per run, the agent-label profile
MaxPullOrdered == 11 \* chunks pulled per run, the well-formed profile

None == "None"

(***************************************************************************)
(* Text helpers                                                            *)
(***************************************************************************)
Contains(s, tok) == \E i \in 1..Len(s) : s[i] = tok

StartsWith(s, tok) == Len(s) >= 1 /\ s[1] = tok

\* str.isspace of one character
IsSpace(c) == c \in {" ", "\t", "\n"}

RECURSIVE LStrip(_)
LStrip(s) == IF s # <<>> /\ IsSpace(Head(s)) THEN LStrip(Tail(s)) ELSE s

RECURSIVE RStrip(_)
RStrip(s) ==
    IF s # <<>> /\ IsSpace(s[Len(s)]) THEN RStrip(SubSeq(s, 1, Len(s) - 1)) ELSE s

Strip(s) == RStrip(LStrip(s))

(***************************************************************************)
(* get_agent_name_from_function                                            *)
(***************************************************************************)
Prefix == "transfer_task_to_"

Keys == <<"task_analyzer", "incident_analyzer", "ticket_creation",
          "root_cause_analysis", "resolution_discovery">>

Labels == <<"Task Analyzer", "Incident Analyzer", "Ticket Creation",
            "Root Cause Analysis", "Resolution Discovery">>

GenericLabel == "Agent"

agent_map == [fn \in {<<Prefix, Keys[i]>> : i \in 1..5} |->
                 Labels[CHOOSE i \in 1..5 : fn = <<Prefix, Keys[i]>>]]

\* mutant: the lookup table is not consulted
get_agent_name_from_function_generic(function_name) == GenericLabel

get_agent_name_from_function(function_name) ==
    IF function_name \in DOMAIN agent_map THEN agent_map[function_name]
    ELSE GenericLabel

(***************************************************************************)
(* Values carried by a chunk of the response stream                        *)
(***************************************************************************)
StrContent(v) == [type |-> "str", val |-> v]

ListContent(v) == [type |-> "list", val |-> v]

NoneContent == [type |-> "NoneType", val |-> <<>>]

\* mutant: every content counts as present
Truthy_always(content) == TRUE

\* bool(content): None, "" and [] are false
Truthy(content) == content.val # <<>>

RECURSIVE Join(_)
Join(items) ==
    IF Len(items) = 0 THEN <<>>
    ELSE IF Len(items) = 1 THEN <<items[1]>>
    ELSE <<items[1], "', '">> \o Join(Tail(items))

\* str(content)
Str(content) ==
    IF content.type = "str" THEN content.val
    ELSE IF content.type = "NoneType" THEN <<"None">>
    ELSE IF content.val = <<>> THEN <<"[]">>
    ELSE <<"['">> \o Join(content.val) \o <<"']">>

IsInstanceStr(content) == content.type = "str"

Tool(function_name) == [function_name |-> function_name]

ToolWithoutName == [tool_call_id |-> "call_1"]

RunResponse(event, content, tools, rid) ==
    [isRunResponse |-> TRUE, event |-> event, content |-> content,
     tools |-> tools, run_id |-> rid]

\* an object of the stream that is no RunResponse
OtherObject ==
    [isRunResponse |-> FALSE, event |-> None, content |-> NoneContent,
     tools |-> <<>>, run_id |-> None]

FnTaskAnalyzer == <<Prefix, "task_analyzer">>
FnIncidentAnalyzer == <<Prefix, "incident_analyzer">>
FnUnknownTarget == <<Prefix, "billing">>
FnLookup == <<"lookup_kb_article">>

Started(tools, rid) == RunResponse("tool_call_started", NoneContent, tools, rid)
Completed(content, rid) == RunResponse("tool_call_completed", content, <<>>, rid)
Response(content, rid) == RunResponse("run_response", content, <<>>, rid)

(***************************************************************************)
(* Step records and their rendering                                        *)
(***************************************************************************)
Step(icon, title, content, type) ==
    [icon |-> icon, title |-> title, content |-> content, type |-> type]

StartedStep ==
    Step("rocket", <<"Orchestrator Started">>,
         <<"Analyzing incident and determining workflow">>, "info")

DelegationStep(agent) ==
    Step("arrows", <<"Delegating to ", agent>>,
         <<"Task transferred successfully">>, "delegation")

CompletionStep(agent_name, content_str) ==
    Step("check", <<agent_name, " - Completed">>, content_str, "success")

CompletedStep ==
    Step("sparkles", <<"Orchestration Completed">>,
         <<"All agents finished successfully">>, "success")

\* the expanders written into steps_placeholder, enumerate(execution_steps, 1)
Expanders(steps) ==
    [idx \in 1..Len(steps) |->
        [icon |-> steps[idx].icon, idx |-> idx, title |-> steps[idx].title,
         expanded |-> steps[idx].type \in {"delegation", "success"},
         box |-> CASE steps[idx].type = "info" -> "info"
                   [] steps[idx].type = "delegation" -> "warning"
                   [] steps[idx].type = "success" -> "success"
                   [] OTHER -> None,
         content |-> steps[idx].content]]

(***************************************************************************)
(* Progress values, in hundredths                                          *)
(***************************************************************************)
ProgressInitial == 0
ProgressStarted == 10
DelegationCap == 90
CompletionCap == 95
ProgressMax == 100

Min(a, b) == IF a <= b THEN a ELSE b

\* min(step_count / 10, 0.9)
DelegationProgress(n) == Min(n * 10, DelegationCap)

\* mutant: the cap is missing
CompletionProgress_uncapped(n) == n * 10

\* min(step_count / 10, 0.95)
CompletionProgress(n) == Min(n * 10, CompletionCap)

(***************************************************************************)
(* The branches of the event loop                                          *)
(***************************************************************************)
\* mutant: the steps are rendered before the iteration is left
Continue_render ==
    /\ UNCHANGED <<runVars, progress_bar, status_text>>
    /\ steps_placeholder' = Expanders(execution_steps')
    /\ renders' = renders + 1

\* `continue`: the rest of the iteration, the rendering included, is skipped
Continue == UNCHANGED <<runVars, liveVars>>

RenderSteps ==
    /\ steps_placeholder' = Expanders(execution_steps')
    /\ renders' = renders + 1

\* mutant: the step is put at the front of the list
OnRunStarted_prepend ==
    /\ step_count' = step_count + 1
    /\ progress_bar' = ProgressStarted
    /\ status_text' = <<"info", "Orchestrator analyzing request">>
    /\ execution_steps' = <<StartedStep>> \o execution_steps
    /\ UNCHANGED <<current_agent, full_content>>
    /\ steps_placeholder' = Expanders(execution_steps')
    /\ renders' = renders + 1

OnRunStarted ==
    /\ step_count' = step_count + 1
    /\ progress_bar' = ProgressStarted
    /\ status_text' = <<"info", "Orchestrator analyzing request">>
    /\ execution_steps' = Append(execution_steps, StartedStep)
    /\ UNCHANGED <<current_agent, full_content>>
    /\ RenderSteps

HasFunctionName(tool_info) ==
    /\ "function_name" \in DOMAIN tool_info
    /\ tool_info.function_name # <<>>

\* mutant: the prefix filter is missing
IsDelegation_any(function_name) == TRUE

IsDelegation(function_name) == StartsWith(function_name, Prefix)

\* mutant: an agent that is already remembered is not overwritten
Delegate_keep_first(function_name) ==
    /\ current_agent' = IF current_agent # None THEN current_agent
                        ELSE get_agent_name_from_function(function_name)
    /\ step_count' = step_count + 1
    /\ progress_bar' = DelegationProgress(step_count')
    /\ status_text' = <<"info", "Delegating to ", current_agent'>>
    /\ execution_steps' = Append(execution_steps, DelegationStep(current_agent'))
    /\ UNCHANGED full_content
    /\ RenderSteps

Delegate(function_name) ==
    /\ current_agent' = get_agent_name_from_function(function_name)
    /\ step_count' = step_count + 1
    /\ progress_bar' = DelegationProgress(step_count')
    /\ status_text' = <<"info", "Delegating to ", current_agent'>>
    /\ execution_steps' = Append(execution_steps, DelegationStep(current_agent'))
    /\ UNCHANGED full_content
    /\ RenderSteps

OnToolCallStarted(chunk) ==
    IF chunk.tools = <<>> THEN Continue
    ELSE LET tool_info == chunk.tools[Len(chunk.tools)] IN
         IF ~HasFunctionName(tool_info) THEN Continue
         ELSE IF ~IsDelegation(tool_info.function_name) THEN Continue
         ELSE Delegate(tool_info.function_name)

\* mutant: the scan keeps the last key of the list that occurs
FirstKey_last(content_str, i) ==
    LET present == {k \in i..Len(Keys) : Contains(content_str, Keys[k])} IN
    IF present = {} THEN 0 ELSE CHOOSE k \in present : \A m \in present : m <= k

RECURSIVE FirstKey(_, _)
\* the first key of Keys, from position i on, that occurs in content_str; 0 if none
FirstKey(content_str, i) ==
    IF i > Len(Keys) THEN 0
    ELSE IF Contains(content_str, Keys[i]) THEN i
    ELSE FirstKey(content_str, i + 1)

\* detected_agent
DetectAgent(content_str) ==
    IF Contains(content_str, Prefix) /\ FirstKey(content_str, 1) # 0
    THEN get_agent_name_from_function(<<Prefix, Keys[FirstKey(content_str, 1)]>>)
    ELSE None

\* x or y, for labels: None and "" are false
Or(x, y) == IF x # None /\ x # "" THEN x ELSE y

\* mutant: the remembered agent wins over the detected one
AgentName_current_first(detected_agent, agent) ==
    Or(agent, Or(detected_agent, GenericLabel))

\* detected_agent or current_agent or the generic label
AgentName(detected_agent, agent) == Or(detected_agent, Or(agent, GenericLabel))

\* mutant: the remembered agent is not cleared
Complete_keep_agent(content_str) ==
    /\ step_count' = step_count + 1
    /\ progress_bar' = CompletionProgress(step_count')
    /\ execution_steps' =
          Append(execution_steps,
                 CompletionStep(AgentName(DetectAgent(content_str), current_agent),
                                content_str))
    /\ UNCHANGED <<current_agent, full_content, status_text>>
    /\ RenderSteps

Complete(content_str) ==
    /\ step_count' = step_count + 1
    /\ progress_bar' = CompletionProgress(step_count')
    /\ execution_steps' =
          Append(execution_steps,
                 CompletionStep(AgentName(DetectAgent(content_str), current_agent),
                                content_str))
    /\ current_agent' = None
    /\ UNCHANGED <<full_content, status_text>>
    /\ RenderSteps

OnToolCallCompleted(chunk) ==
    IF ~Truthy(chunk.content) THEN Continue
    ELSE Complete(Str(chunk.content))

\* mutant: the delta is put in front of the buffer
OnRunResponse_prepend(chunk) ==
    /\ full_content' = IF IsInstanceStr(chunk.content)
                       THEN chunk.content.val \o full_content
                       ELSE full_content
    /\ UNCHANGED <<execution_steps, step_count, current_agent, progress_bar,
                   status_text>>
    /\ RenderSteps

OnRunResponse(chunk) ==
    /\ full_content' = IF IsInstanceStr(chunk.content)
                       THEN full_content \o chunk.content.val
                       ELSE full_content
    /\ UNCHANGED <<execution_steps, step_count, current_agent, progress_bar,
                   status_text>>
    /\ RenderSteps

OnRunCompleted ==
    /\ progress_bar' = ProgressMax
    /\ status_text' = <<"success", "Workflow completed successfully">>
    /\ execution_steps' = Append(execution_steps, CompletedStep)
    /\ UNCHANGED <<step_count, current_agent, full_content>>
    /\ RenderSteps

OnOtherEvent ==
    /\ UNCHANGED <<runVars, progress_bar, status_text>>
    /\ RenderSteps

\* one iteration of `for response_chunk in response_stream`
ProcessChunk(chunk) ==
    IF ~chunk.isRunResponse
    THEN UNCHANGED <<run_id, runVars, liveVars>>
    ELSE /\ run_id' = chunk.run_id
         /\ CASE chunk.event = "run_started" -> OnRunStarted
              [] chunk.event = "tool_call_started" -> OnToolCallStarted(chunk)
              [] chunk.event = "tool_call_completed" -> OnToolCallCompleted(chunk)
              [] chunk.event = "run_response" -> OnRunResponse(chunk)
              [] chunk.event = "run_completed" -> OnRunCompleted
              [] OTHER -> OnOtherEvent

(***************************************************************************)
(* What the environment supplies: the text of the form and the chunks of   *)
(* the response stream.  Each profile is a family of inputs.               *)
(***************************************************************************)
Texts == {<<>>, <<" ">>, <<"\n", "\t">>, <<"x">>, <<" ", "x", " ">>}

Senders == {<<>>, <<"ntid@itsm.com">>}

Recipients == {<<"support@itsm.com">>, <<>>}

Exceptions == {"ConnectionError"}

\* every kind of chunk the loop tells apart
EventChunks ==
    { OtherObject,
      RunResponse("run_started", NoneContent, <<>>, "r1"),
      Started(<<>>, "r1"),
      Started(<<ToolWithoutName>>, "r1"),
      Started(<<Tool(<<>>)>>, "r1"),
      Started(<<Tool(FnLookup)>>, "r1"),
      Started(<<Tool(FnTaskAnalyzer)>>, "r1"),
      Started(<<Tool(FnUnknownTarget)>>, "r1"),
      Started(<<Tool(FnTaskAnalyzer), Tool(FnLookup)>>, "r1"),
      Completed(NoneContent, "r1"),
      Completed(StrContent(<<>>), "r1"),
      Completed(StrContent(<<Prefix, "incident_analyzer", " result">>), "r1"),
      Completed(StrContent(<<"done">>), "r1"),
      Response(StrContent(<<"a">>), "r1"),
      Response(StrContent(<<"b">>), None),
      Response(NoneContent, "r1"),
      Response(ListContent(<<"a">>), "r2"),
      RunResponse("run_completed", NoneContent, <<>>, "r1"),
      RunResponse("updating_memory", NoneContent, <<>>, None) }

\* completion contents for the keyword scan: one keyword with the prefix before
\* or after it or without it, two keywords in either order, no keyword
OneKeyContents ==
    UNION {{<<Prefix, Keys[i]>>, <<Keys[i], " then ", Prefix>>, <<Keys[i]>>} :
           i \in 1..5}

TwoKeyContents ==
    UNION {{<<Prefix, Keys[i], Keys[j]>>, <<Keys[j], Prefix, Keys[i]>>} :
           i \in 1..5, j \in 1..5} \ OneKeyContents

NoKeyContents == {<<"done">>, <<Prefix, "done">>}

DetectChunks ==
    {Completed(StrContent(c), "r1") :
        c \in OneKeyContents \cup TwoKeyContents \cup NoKeyContents}
    \cup {Started(<<Tool(<<Prefix, Keys[i]>>)>>, "r1") : i \in 1..5}
    \cup {Completed(ListContent(<<Prefix, "ticket_creation">>), "r1"),
          Completed(StrContent(<<>>), "r1"),
          Started(<<Tool(FnUnknownTarget)>>, "r1"),
          Started(<<Tool(FnLookup)>>, "r1")}

\* the chunks that add steps, for long runs
LongChunks ==
    { RunResponse("run_started", NoneContent, <<>>, "r1"),
      Started(<<Tool(FnTaskAnalyzer)>>, "r1"),
      Completed(StrContent(<<"done">>), "r1"),
      RunResponse("run_completed", NoneContent, <<>>, "r1") }

SubmitChunks ==
    { RunResponse("run_started", NoneContent, <<>>, "r1"),
      Response(StrContent(<<"a">>), "r1") }

\* delegations and completions with and without a detectable agent
LabelChunks ==
    { Started(<<Tool(FnTaskAnalyzer)>>, "r1"),
      Started(<<Tool(FnIncidentAnalyzer)>>, "r1"),
      Started(<<Tool(FnUnknownTarget)>>, "r1"),
      Started(<<Tool(FnLookup)>>, "r1"),
      Completed(StrContent(<<"done">>), "r1"),
      Completed(StrContent(<<Prefix, "done">>), "r1"),
      Completed(StrContent(<<"ticket_creation">>), "r1"),
      Completed(StrContent(<<Prefix, "ticket_creation">>), "r1"),
      Completed(StrContent(<<>>), "r1"),
      Completed(ListContent(<<"done">>), "r1") }

\* the chunks of a well-formed stream between run_started and run_completed
OrderedChunks ==
    { Started(<<Tool(FnTaskAnalyzer)>>, "r1"),
      Completed(StrContent(<<"done">>), "r1"),
      Response(StrContent(<<"a">>), "r1"),
      RunResponse("run_completed", NoneContent, <<>>, "r1") }

Profiles == {"events", "detect", "long", "submit", "labels", "ordered"}

HasEvent(chunks, event) ==
    \E i \in 1..Len(chunks) : chunks[i].isRunResponse /\ chunks[i].event = event

\* what the stream may yield next; a long run ends with its run_completed
Chunks ==
    CASE profile = "events" -> EventChunks
      [] profile = "detect" -> DetectChunks
      [] profile = "long" ->
            IF HasEvent(consumed, "run_completed") THEN {} ELSE LongChunks
      [] profile = "labels" -> LabelChunks
      [] profile = "ordered" ->
            IF consumed = <<>> THEN {RunResponse("run_started", NoneContent, <<>>, "r1")}
            ELSE IF HasEvent(consumed, "run_completed") THEN {}
            ELSE OrderedChunks
      [] OTHER -> SubmitChunks

PullLimit ==
    CASE profile = "events" -> MaxPull
      [] profile = "detect" -> MaxPullDetect
      [] profile = "long" -> MaxPullLong
      [] profile = "labels" -> MaxPullLabels
      [] profile = "ordered" -> MaxPullOrdered
      [] OTHER -> MaxPullSubmit

Subjects == IF profile = "submit" THEN Texts ELSE {<<>>, <<"x">>}

Bodies == IF profile = "submit" THEN Texts ELSE {<<>>}

FromValues == IF profile = "submit" THEN Senders ELSE {<<>>}

ToValues == IF profile = "submit" THEN Recipients ELSE {<<"support@itsm.com">>}

(***************************************************************************)
(* The script                                                              *)
(***************************************************************************)
NoDownload == [offered |-> FALSE, data |-> <<>>, file_name |-> <<>>]

Download(data, rid) ==
    [offered |-> TRUE, data |-> data, file_name |-> <<"itsm_report_", rid, ".md">>]

\* mutant: the buffer and the remembered agent survive the rerun
FreshPage_stale ==
    /\ execution_steps' = <<>>
    /\ step_count' = 0
    /\ UNCHANGED <<current_agent, full_content>>
    /\ run_id' = None
    /\ steps_placeholder' = <<>>
    /\ renders' = 0
    /\ consumed' = <<>>
    /\ final_report' = "absent"
    /\ download_button' = NoDownload
    /\ error' = None

\* a new execution of the script starts from an empty page and no run state
FreshPage ==
    /\ execution_steps' = <<>>
    /\ step_count' = 0
    /\ current_agent' = None
    /\ full_content' = <<>>
    /\ run_id' = None
    /\ steps_placeholder' = <<>>
    /\ renders' = 0
    /\ consumed' = <<>>
    /\ final_report' = "absent"
    /\ download_button' = NoDownload
    /\ error' = None

\* the run that the page showed is now an earlier run
RememberRun == aborted_before' = (aborted_before \/ pc = "failed")

ReadForm(from, to, subject, body) ==
    /\ email_from' = from
    /\ email_to' = to
    /\ email_subject' = subject
    /\ email_body' = body

\* mutant: `or` in place of `and`
BlankSubmit_either(subject, body) == Strip(subject) = <<>> \/ Strip(body) = <<>>

\* not email_subject.strip() and not email_body.strip()
BlankSubmit(subject, body) == Strip(subject) = <<>> /\ Strip(body) = <<>>

\* the button is pressed with a blank form: st.warning, st.stop
SubmitRejected(from, to, subject, body) ==
    /\ pc # "streaming"
    /\ BlankSubmit(subject, body)
    /\ ReadForm(from, to, subject, body)
    /\ FreshPage
    /\ warning' = TRUE
    /\ run_calls' = 0
    /\ status_container' = "absent"
    /\ progress_bar' = ProgressInitial
    /\ status_text' = <<>>
    /\ pc' = "stopped"
    /\ RememberRun
    /\ UNCHANGED profile

\* the button is pressed: containers, run state, Sister.run
SubmitRun(from, to, subject, body) ==
    /\ pc # "streaming"
    /\ ~BlankSubmit(subject, body)
    /\ ReadForm(from, to, subject, body)
    /\ FreshPage
    /\ warning' = FALSE
    /\ run_calls' = 1
    /\ status_container' = "shown"
    /\ progress_bar' = ProgressInitial
    /\ status_text' = <<>>
    /\ pc' = "streaming"
    /\ RememberRun
    /\ UNCHANGED profile

\* the loop pulls the next chunk and runs one iteration on it
PullChunk(chunk) ==
    /\ pc = "streaming"
    /\ Len(consumed) < PullLimit
    /\ consumed' = Append(consumed, chunk)
    /\ ProcessChunk(chunk)
    /\ UNCHANGED <<profile, aborted_before, inputVars, pc, warning, run_calls, endVars>>

\* mutant: the download is offered whatever the content
FinalReport_unconditional ==
    /\ pc = "streaming"
    /\ status_container' = "empty"
    /\ final_report' = "content"
    /\ download_button' = Download(full_content, run_id)
    /\ pc' = "finished"
    /\ UNCHANGED <<profile, aborted_before, inputVars, warning, run_calls, run_id, runVars, liveVars,
                   consumed, error>>

\* the stream is exhausted: status_container.empty() and the final report
FinalReport ==
    /\ pc = "streaming"
    /\ status_container' = "empty"
    /\ final_report' = IF full_content # <<>> THEN "content" ELSE "no_content"
    /\ download_button' = IF full_content # <<>> THEN Download(full_content, run_id)
                          ELSE NoDownload
    /\ pc' = "finished"
    /\ UNCHANGED <<profile, aborted_before, inputVars, warning, run_calls, run_id, runVars, liveVars,
                   consumed, error>>

\* mutant: the report is rendered from the except block as well
StreamRaises_salvage(e) ==
    /\ pc = "streaming"
    /\ status_container' = "empty"
    /\ error' = e
    /\ final_report' = IF full_content # <<>> THEN "content" ELSE "no_content"
    /\ download_button' = IF full_content # <<>> THEN Download(full_content, run_id)
                          ELSE NoDownload
    /\ pc' = "failed"
    /\ UNCHANGED <<profile, aborted_before, inputVars, warning, run_calls, run_id, runVars, liveVars,
                   consumed>>

\* mutant: the exception is shown and the loop goes on
StreamRaises_swallow(e) ==
    /\ pc = "streaming"
    /\ error = None
    /\ error' = e
    /\ UNCHANGED <<profile, aborted_before, inputVars, pc, warning, run_calls, run_id,
                   runVars, liveVars, consumed, status_container, final_report,
                   download_button>>

\* the stream raises: the except block
StreamRaises(e) ==
    /\ pc = "streaming"
    /\ status_container' = "empty"
    /\ error' = e
    /\ pc' = "failed"
    /\ UNCHANGED <<profile, aborted_before, inputVars, warning, run_calls, run_id, runVars, liveVars,
                   consumed, final_report, download_button>>

InitProfile(p) ==
    /\ profile = p
    /\ aborted_before = FALSE
    /\ email_from = <<>>
    /\ email_to = <<"support@itsm.com">>
    /\ email_subject = <<>>
    /\ email_body = <<>>
    /\ pc = "idle"
    /\ warning = FALSE
    /\ run_calls = 0
    /\ execution_steps = <<>>
    /\ step_count = 0
    /\ current_agent = None
    /\ full_content = <<>>
    /\ run_id = None
    /\ status_container = "absent"
    /\ progress_bar = ProgressInitial
    /\ status_text = <<>>
    /\ steps_placeholder = <<>>
    /\ renders = 0
    /\ consumed = <<>>
    /\ final_report = "absent"
    /\ download_button = NoDownload
    /\ error = None

Init == InitProfile("events")
InitDetect == InitProfile("detect")
InitLong == InitProfile("long")
InitSubmit == InitProfile("submit")
InitLabels == InitProfile("labels")
InitOrdered == InitProfile("ordered")

Next ==
    \/ \E from \in FromValues, to \in ToValues, subject \in Subjects, body \in Bodies :
          SubmitRejected(from, to, subject, body)
    \/ \E from \in FromValues, to \in ToValues, subject \in Subjects, body \in Bodies :
          SubmitRun(from, to, subject, body)
    \/ \E chunk \in Chunks : PullChunk(chunk)
    \/ FinalReport
    \/ \E e \in Exceptions : StreamRaises(e)

Spec == Init /\ [][Next]_vars
SpecDetect == InitDetect /\ [][Next]_vars
SpecLong == InitLong /\ [][Next]_vars
SpecSubmit == InitSubmit /\ [][Next]_vars
SpecLabels == InitLabels /\ [][Next]_vars
SpecOrdered == InitOrdered /\ [][Next]_vars

\* the script is synchronous: while a run is on, the loop pulls the next chunk,
\* or the stream ends or raises
Proceed ==
    \/ \E chunk \in Chunks : PullChunk(chunk)
    \/ FinalReport
    \/ \E e \in Exceptions : StreamRaises(e)

SpecFair == Init /\ [][Next]_vars /\ WF_vars(Proceed)

(***************************************************************************)
(* Vocabulary of the properties                                            *)
(***************************************************************************)
Last(s) == s[Len(s)]

\* the last step taken pulled a chunk
Pulled == consumed # <<>>

IsEvent(chunk, event) == chunk.isRunResponse /\ chunk.event = event

\* the keywords that occur in a text
KeysIn(text) == {i \in 1..5 : \E k \in 1..Len(text) : text[k] = Keys[i]}

MentionsPrefix(text) == \E k \in 1..Len(text) : text[k] = Prefix

IsCompletionWithContent(chunk) ==
    IsEvent(chunk, "tool_call_completed") /\ chunk.content.val # <<>>

CompletedTitle(label) == <<label, " - Completed">>

(***************************************************************************)
(* C1 (as stated): a tool_call_completed event with non-empty content that *)
(* contains exactly one of the five keywords emits a success step labelled *)
(* with that keyword's agent label, whatever current agent is remembered.  *)
(* Refuted: the scan only runs when the content also contains the          *)
(* delegation prefix transfer_task_to_.                                    *)
(***************************************************************************)
C1_KeywordAloneDecidesLabel ==
    (Pulled /\ IsCompletionWithContent(Last(consumed))
       /\ Cardinality(KeysIn(Str(Last(consumed).content))) = 1)
    => /\ execution_steps # <<>>
       /\ \E i \in KeysIn(Str(Last(consumed).content)) :
             Last(execution_steps).title = CompletedTitle(Labels[i])

(***************************************************************************)
(* C1 (amended): a tool_call_completed event with non-empty content that   *)
(* contains the delegation prefix and exactly one of the five keywords     *)
(* emits a success step labelled with that keyword's agent label, whatever *)
(* current agent is remembered (none, the same, a different one).          *)
(***************************************************************************)
C1_PrefixedKeywordDecidesLabel ==
    (Pulled /\ IsCompletionWithContent(Last(consumed))
       /\ MentionsPrefix(Str(Last(consumed).content))
       /\ Cardinality(KeysIn(Str(Last(consumed).content))) = 1)
    => /\ execution_steps # <<>>
       /\ Last(execution_steps).type = "success"
       /\ \E i \in KeysIn(Str(Last(consumed).content)) :
             Last(execution_steps).title = CompletedTitle(Labels[i])

\* a completion naming the task analyzer arrives while the incident analyzer
\* is the remembered agent, and the step is labelled Task Analyzer
C1_Witness ==
    /\ Len(consumed) = 2
    /\ consumed[1] = Started(<<Tool(FnIncidentAnalyzer)>>, "r1")
    /\ consumed[2] = Completed(StrContent(<<"task_analyzer", " then ", Prefix>>), "r1")
    /\ Len(execution_steps) = 2
    /\ execution_steps[1].title = <<"Delegating to ", "Incident Analyzer">>
    /\ execution_steps[2].title = CompletedTitle("Task Analyzer")

(***************************************************************************)
(* C2: the length of the step list equals the number of consumed events    *)
(* that pass the filters: run_started, tool_call_started whose tool        *)
(* invocation has a function name beginning with transfer_task_to_,        *)
(* tool_call_completed with non-empty content, run_completed.              *)
(***************************************************************************)
PassesFilter(chunk) ==
    \/ IsEvent(chunk, "run_started")
    \/ /\ IsEvent(chunk, "tool_call_started")
       /\ chunk.tools # <<>>
       /\ "function_name" \in DOMAIN Last(chunk.tools)
       /\ Last(chunk.tools).function_name # <<>>
       /\ Last(chunk.tools).function_name[1] = Prefix
    \/ IsCompletionWithContent(chunk)
    \/ IsEvent(chunk, "run_completed")

PassingEvents == {i \in 1..Len(consumed) : PassesFilter(consumed[i])}

C2_StepsCountPassingEvents == Len(execution_steps) = Cardinality(PassingEvents)

\* a finished run of three events of which some passed and some did not
C2_Witness ==
    /\ pc = "finished"
    /\ Len(consumed) = 3
    /\ Len(execution_steps) = 2
    /\ \E i \in 1..3 : IsEvent(consumed[i], "tool_call_started") /\ ~PassesFilter(consumed[i])

(***************************************************************************)
(* C3: in a run with no run_completed event the progress value stays       *)
(* strictly below 1.0 after every event, however many steps are emitted.   *)
(***************************************************************************)
C3_ProgressBelowMaxBeforeCompletion ==
    ~HasEvent(consumed, "run_completed") => progress_bar < ProgressMax

\* ten steps and more without run_completed: the cap is what holds the value
C3_Witness ==
    /\ ~HasEvent(consumed, "run_completed")
    /\ step_count >= 10
    /\ step_count * 10 >= ProgressMax
    /\ progress_bar = CompletionCap

(***************************************************************************)
(* C4: the accumulated content is the concatenation, in arrival order, of  *)
(* the string contents of the run_response events consumed so far; each    *)
(* event leaves the old content as a prefix of the new one, and an event   *)
(* that is no run_response with string content leaves it unchanged.        *)
(***************************************************************************)
IsStringDelta(chunk) == IsEvent(chunk, "run_response") /\ chunk.content.type = "str"

RECURSIVE ConcatDeltas(_)
ConcatDeltas(chunks) ==
    IF chunks = <<>> THEN <<>>
    ELSE (IF IsStringDelta(Head(chunks)) THEN Head(chunks).content.val ELSE <<>>)
         \o ConcatDeltas(Tail(chunks))

IsPrefixOf(s, t) == Len(s) <= Len(t) /\ SubSeq(t, 1, Len(s)) = s

\* this step pulled one more chunk of the running stream
PullStep == Len(consumed') = Len(consumed) + 1

C4_ContentIsConcatenation ==
    /\ [](full_content = ConcatDeltas(consumed))
    /\ [][PullStep =>
            /\ IsPrefixOf(full_content, full_content')
            /\ ~IsStringDelta(Last(consumed')) => full_content' = full_content]_vars

\* two different deltas around a non-string run_response
C4_Witness ==
    /\ Len(consumed) = 3
    /\ consumed[1] = Response(StrContent(<<"b">>), None)
    /\ consumed[2] = Response(ListContent(<<"a">>), "r2")
    /\ consumed[3] = Response(StrContent(<<"a">>), "r1")
    /\ full_content = <<"b", "a">>

(***************************************************************************)
(* C5: a tool_call_started event whose function name begins with           *)
(* transfer_task_to_ appends exactly one delegation step titled            *)
(* "Delegating to " + the label of the lookup table for that name (generic *)
(* for a name outside the table) and sets current agent to that label; the *)
(* label is a function of the function name alone.                         *)
(***************************************************************************)
TableLabel(function_name) ==
    CASE function_name = <<"transfer_task_to_", "task_analyzer">> -> "Task Analyzer"
      [] function_name = <<"transfer_task_to_", "incident_analyzer">> -> "Incident Analyzer"
      [] function_name = <<"transfer_task_to_", "ticket_creation">> -> "Ticket Creation"
      [] function_name = <<"transfer_task_to_", "root_cause_analysis">> -> "Root Cause Analysis"
      [] function_name = <<"transfer_task_to_", "resolution_discovery">> -> "Resolution Discovery"
      [] OTHER -> "Agent"

IsDelegationEvent(chunk) == IsEvent(chunk, "tool_call_started") /\ PassesFilter(chunk)

AppendsOne(old, new) == Len(new) = Len(old) + 1 /\ SubSeq(new, 1, Len(old)) = old

C5_DelegationStepFromTable ==
    [][(PullStep /\ IsDelegationEvent(Last(consumed'))) =>
          LET label == TableLabel(Last(Last(consumed').tools).function_name) IN
          /\ AppendsOne(execution_steps, execution_steps')
          /\ Last(execution_steps').title = <<"Delegating to ", label>>
          /\ Last(execution_steps').type = "delegation"
          /\ current_agent' = label]_vars

\* a delegation to a target outside the table follows one to a known target
C5_Witness ==
    /\ Len(consumed) = 2
    /\ consumed[1] = Started(<<Tool(<<Prefix, "root_cause_analysis">>)>>, "r1")
    /\ consumed[2] = Started(<<Tool(FnUnknownTarget)>>, "r1")
    /\ execution_steps[1].title = <<"Delegating to ", "Root Cause Analysis">>
    /\ execution_steps[2].title = <<"Delegating to ", "Agent">>
    /\ current_agent = "Agent"

(***************************************************************************)
(* C6: an ignored event (tool_call_started with no tool invocation, no     *)
(* function name or a name without the delegation prefix;                  *)
(* tool_call_completed with empty content; an unrecognized tag) leaves the *)
(* step list, step count, current agent, accumulated content and progress  *)
(* value as they were.                                                     *)
(***************************************************************************)
KnownTags == {"run_started", "tool_call_started", "tool_call_completed",
              "run_response", "run_completed"}

IsIgnored(chunk) ==
    /\ chunk.isRunResponse
    /\ \/ IsEvent(chunk, "tool_call_started") /\ ~PassesFilter(chunk)
       \/ IsEvent(chunk, "tool_call_completed") /\ chunk.content.val = <<>>
       \/ chunk.event \notin KnownTags

C6_IgnoredEventsChangeNothing ==
    [][(PullStep /\ IsIgnored(Last(consumed'))) =>
          UNCHANGED <<execution_steps, step_count, current_agent, full_content,
                      progress_bar>>]_vars

\* lookup_kb_article arrives while an agent is remembered and content is buffered
C6_Witness ==
    /\ Len(consumed) = 3
    /\ consumed[3] = Started(<<Tool(FnLookup)>>, "r1")
    /\ IsIgnored(consumed[3])
    /\ current_agent = "Task Analyzer"
    /\ full_content = <<"a">>
    /\ Len(execution_steps) = 1
    /\ progress_bar = 10

(***************************************************************************)
(* C7: when the stream raises, no further event is processed, the progress *)
(* indicator is cleared, the error is shown, neither the final report nor  *)
(* the download is rendered even with non-empty content, and the stream is *)
(* not consumed again until the user submits anew.                         *)
(***************************************************************************)
C7_ExceptionAbortsRun ==
    /\ [](pc = "failed" =>
            /\ status_container = "empty"
            /\ error \in Exceptions
            /\ final_report = "absent"
            /\ ~download_button.offered
            /\ run_calls = 1)
    /\ [][(pc = "streaming" /\ pc' = "failed") =>
            UNCHANGED <<consumed, execution_steps, full_content, run_calls>>]_vars
    /\ [][pc = "failed" => (pc' \in {"stopped", "streaming"} /\ consumed' = <<>>)]_vars

\* the stream raises after run_response and run_completed events
C7_Witness ==
    /\ pc = "failed"
    /\ full_content # <<>>
    /\ HasEvent(consumed, "run_completed")
    /\ error = "ConnectionError"

(***************************************************************************)
(* C8: a submit with subject and body both blank (empty or whitespace      *)
(* only) is rejected with a warning whatever the from and to fields hold:  *)
(* no agent run is started and no step is emitted; a submit with subject   *)
(* or body non-blank starts exactly one agent run.                         *)
(***************************************************************************)
Whitespace == {" ", "\t", "\n"}

IsBlank(text) == \A i \in 1..Len(text) : text[i] \in Whitespace

C8_BlankSubmitRejected ==
    [][pc # "streaming" =>
          IF IsBlank(email_subject') /\ IsBlank(email_body')
          THEN /\ pc' = "stopped"
               /\ warning'
               /\ run_calls' = 0
               /\ status_container' = "absent"
               /\ execution_steps' = <<>> /\ step_count' = 0 /\ consumed' = <<>>
          ELSE /\ pc' = "streaming"
               /\ ~warning'
               /\ run_calls' = 1
               /\ consumed' = <<>>]_vars

\* whitespace-only subject and body with the from field filled in and to emptied
C8_Witness ==
    /\ pc = "stopped"
    /\ warning
    /\ email_subject = <<" ">>
    /\ email_body = <<"\n", "\t">>
    /\ email_from = <<"ntid@itsm.com">>
    /\ email_to = <<>>
    /\ run_calls = 0

(***************************************************************************)
(* C9: the download is offered only once the stream is exhausted, never    *)
(* while chunks are pulled, never after an exception and never with empty  *)
(* content; its data is the accumulated content at the end of the stream.  *)
(***************************************************************************)
C9_DownloadOnlyAfterCompletion ==
    download_button.offered =>
        /\ pc = "finished"
        /\ error = None
        /\ full_content # <<>>
        /\ download_button.data = full_content
        /\ download_button.data = ConcatDeltas(consumed)

C9_Witness ==
    /\ download_button.offered
    /\ download_button.data = <<"a", "b">>
    /\ pc = "finished"

(***************************************************************************)
(* C10: when the download is offered for a run in which some consumed      *)
(* event carried a non-null run id, the file is named                      *)
(* itsm_report_<run_id>.md with such a non-null run id.                    *)
(* Refuted by the code: run_id is overwritten by every RunResponse chunk,  *)
(* a later chunk without run id included.                                  *)
(***************************************************************************)
CarriedRunIds ==
    {consumed[i].run_id : i \in {k \in 1..Len(consumed) :
                                    consumed[k].isRunResponse /\ consumed[k].run_id # None}}

C10_ArtifactNamedWithRunId ==
    (download_button.offered /\ CarriedRunIds # {}) =>
        \E rid \in CarriedRunIds :
            download_button.file_name = <<"itsm_report_", rid, ".md">>

(***************************************************************************)
(* C11 (as stated): every iteration of the loop processes one event and    *)
(* re-renders the full step sequence once before the next event is pulled, *)
(* events ignored by the filters included.                                 *)
(* Refuted: the filters leave the iteration with `continue`, before the    *)
(* rendering.                                                              *)
(***************************************************************************)
C11_EveryEventRenders ==
    [][(PullStep /\ Last(consumed').isRunResponse) => renders' = renders + 1]_vars

(***************************************************************************)
(* C11 (amended): every iteration processes one event; an event that no    *)
(* filter skips re-renders the full step sequence once, in list order and  *)
(* numbered from 1, before the next event is pulled; an event skipped by a *)
(* filter (a chunk that is no RunResponse, a tool_call_started without     *)
(* delegation, a tool_call_completed with empty content) re-renders        *)
(* nothing, and the sequence on the page is still the full step list.      *)
(***************************************************************************)
SkippedByFilter(chunk) ==
    \/ ~chunk.isRunResponse
    \/ IsEvent(chunk, "tool_call_started") /\ ~PassesFilter(chunk)
    \/ IsEvent(chunk, "tool_call_completed") /\ chunk.content.val = <<>>

ShowsAllSteps ==
    /\ Len(steps_placeholder) = Len(execution_steps)
    /\ \A i \in 1..Len(steps_placeholder) :
          /\ steps_placeholder[i].idx = i
          /\ steps_placeholder[i].icon = execution_steps[i].icon
          /\ steps_placeholder[i].title = execution_steps[i].title
          /\ steps_placeholder[i].content = execution_steps[i].content
          /\ steps_placeholder[i].expanded = (execution_steps[i].type # "info")

C11_ProcessedEventsRender ==
    /\ [](ShowsAllSteps)
    /\ [][PullStep =>
            renders' = renders + (IF SkippedByFilter(Last(consumed')) THEN 0 ELSE 1)]_vars

\* two rendered steps, then an event the filters skip: two renderings for three events
C11_Witness ==
    /\ pc = "streaming"
    /\ Len(consumed) = 3
    /\ IsEvent(consumed[3], "tool_call_started")
    /\ SkippedByFilter(consumed[3])
    /\ renders = 2
    /\ Len(steps_placeholder) = 2
    /\ steps_placeholder[1].idx = 1
    /\ steps_placeholder[2].idx = 2

(***************************************************************************)
(* C12: within a run the step list is append-only and in arrival order: an *)
(* event leaves the list unchanged or appends one record at its end, and   *)
(* the i-th step is the one of the i-th event that passes the filters.     *)
(***************************************************************************)
StepIcon(chunk) ==
    CASE chunk.event = "run_started" -> "rocket"
      [] chunk.event = "tool_call_started" -> "arrows"
      [] chunk.event = "tool_call_completed" -> "check"
      [] chunk.event = "run_completed" -> "sparkles"
      [] OTHER -> None

\* the position in the stream of the i-th event that passes the filters
NthPassing(i) ==
    CHOOSE k \in PassingEvents : Cardinality({j \in PassingEvents : j <= k}) = i

StepsInArrivalOrder ==
    /\ Len(execution_steps) = Cardinality(PassingEvents)
    /\ \A i \in 1..Len(execution_steps) :
          execution_steps[i].icon = StepIcon(consumed[NthPassing(i)])

C12_StepsAppendOnly ==
    /\ [](StepsInArrivalOrder)
    /\ [][pc = "streaming" =>
            \/ execution_steps' = execution_steps
            \/ PullStep /\ AppendsOne(execution_steps, execution_steps')]_vars

\* three steps of three kinds, with run_started arriving last
C12_Witness ==
    /\ Len(consumed) = 3
    /\ IsEvent(consumed[3], "run_started")
    /\ Len(execution_steps) = 3
    /\ execution_steps[1].icon = "arrows"
    /\ execution_steps[2].icon = "check"
    /\ execution_steps[3].icon = "rocket"

(***************************************************************************)
(* C13: a tool_call_completed event with non-empty content in which no     *)
(* agent keyword is detected emits a success step labelled with the        *)
(* remembered current agent, or with the generic label if none is          *)
(* remembered; every tool_call_completed event with non-empty content      *)
(* leaves current agent null, so a second one with no delegation in        *)
(* between is labelled generically.                                        *)
(***************************************************************************)
Detectable(text) == MentionsPrefix(text) /\ KeysIn(text) # {}

NoDelegationBetween(j, k) ==
    \A m \in (j + 1)..(k - 1) : ~IsDelegationEvent(consumed[m])

C13_FallbackLabel ==
    /\ [][(PullStep /\ IsCompletionWithContent(Last(consumed'))) =>
            /\ current_agent' = None
            /\ ~Detectable(Str(Last(consumed').content)) =>
                  /\ AppendsOne(execution_steps, execution_steps')
                  /\ Last(execution_steps').type = "success"
                  /\ Last(execution_steps').title =
                        CompletedTitle(IF current_agent # None THEN current_agent
                                       ELSE "Agent")]_vars
    /\ []((/\ Pulled
           /\ IsCompletionWithContent(Last(consumed))
           /\ ~Detectable(Str(Last(consumed).content))
           /\ \E j \in 1..(Len(consumed) - 1) :
                 /\ IsCompletionWithContent(consumed[j])
                 /\ NoDelegationBetween(j, Len(consumed)))
          => Last(execution_steps).title = CompletedTitle("Agent"))

\* a keyword without the prefix is labelled with the remembered agent, and
\* the completion after it generically
C13_Witness ==
    /\ Len(consumed) = 3
    /\ consumed[1] = Started(<<Tool(FnIncidentAnalyzer)>>, "r1")
    /\ consumed[2] = Completed(StrContent(<<"ticket_creation">>), "r1")
    /\ consumed[3] = Completed(ListContent(<<"done">>), "r1")
    /\ Len(execution_steps) = 3
    /\ execution_steps[2].title = CompletedTitle("Incident Analyzer")
    /\ execution_steps[3].title = CompletedTitle("Agent")
    /\ current_agent = None

(***************************************************************************)
(* C14: run state is reset at the start of every run: the step list is     *)
(* empty, step count 0, current agent null, accumulated content empty and  *)
(* run id null, whatever an earlier run left behind (an aborted one        *)
(* included), so steps, content, run id and file name are functions of the *)
(* run's own events.                                                       *)
(***************************************************************************)
RECURSIVE LastRunId(_)
LastRunId(chunks) ==
    IF chunks = <<>> THEN None
    ELSE IF Last(chunks).isRunResponse THEN Last(chunks).run_id
    ELSE LastRunId(SubSeq(chunks, 1, Len(chunks) - 1))

StepAddingEvents ==
    {i \in PassingEvents : ~IsEvent(consumed[i], "run_completed")}

RunStateFromOwnEvents ==
    /\ Len(execution_steps) = Cardinality(PassingEvents)
    /\ step_count = Cardinality(StepAddingEvents)
    /\ full_content = ConcatDeltas(consumed)
    /\ run_id = LastRunId(consumed)
    /\ download_button.offered =>
          download_button.file_name = <<"itsm_report_", LastRunId(consumed), ".md">>

C14_RunStateReset ==
    /\ [](RunStateFromOwnEvents)
    /\ [][(pc # "streaming" /\ pc' = "streaming") =>
            /\ execution_steps' = <<>>
            /\ step_count' = 0
            /\ current_agent' = None
            /\ full_content' = <<>>
            /\ run_id' = None
            /\ consumed' = <<>>]_vars

\* the start of a run that follows a run aborted by an exception
C14_Witness ==
    /\ aborted_before
    /\ pc = "streaming"
    /\ consumed = <<>>
    /\ execution_steps = <<>>
    /\ step_count = 0
    /\ current_agent = None
    /\ full_content = <<>>
    /\ run_id = None

(***************************************************************************)
(* C15: a run in which no run_completed event was processed is never       *)
(* presented as finished: the progress indicator is not cleared as on a    *)
(* finished run, no "Orchestration Completed" step exists, and neither the *)
(* final report nor the download is rendered, even if the stream ends      *)
(* after run_response content.                                             *)
(* Refuted by the code: when the stream ends, the status container is      *)
(* emptied and the final report is rendered, run_completed or not.         *)
(***************************************************************************)
C15_UnfinishedNeverShownFinished ==
    (run_calls = 1 /\ error = None /\ ~HasEvent(consumed, "run_completed")) =>
        /\ status_container = "shown"
        /\ \A i \in 1..Len(execution_steps) :
              execution_steps[i].title # <<"Orchestration Completed">>
        /\ final_report = "absent"
        /\ ~download_button.offered

(***************************************************************************)
(* C16: in a well-formed run (run_started once and first, run_completed at *)
(* most once and last, any tool_call_started, tool_call_completed and      *)
(* run_response events in between) the progress value never decreases from *)
(* one event to the next.                                                  *)
(* Refuted by the code: the completion cap 0.95 is above the delegation    *)
(* cap 0.9, so a delegation after the tenth step lowers the value.         *)
(***************************************************************************)
WellFormed(chunks) ==
    /\ chunks # <<>>
    /\ \A i \in 1..Len(chunks) :
          /\ chunks[i].isRunResponse
          /\ chunks[i].event \in KnownTags
          /\ IsEvent(chunks[i], "run_started") <=> i = 1
          /\ IsEvent(chunks[i], "run_completed") => i = Len(chunks)

C16_ProgressNeverDecreases ==
    [][(PullStep /\ WellFormed(consumed')) => progress_bar' >= progress_bar]_vars

(***************************************************************************)
(* C17: after every event current agent is the label of the latest         *)
(* delegation event since the latest tool_call_completed event with        *)
(* non-empty content, and null if there is none; a later delegation        *)
(* overwrites an earlier one, and no other event changes it.               *)
(***************************************************************************)
RECURSIVE RememberedAgent(_)
RememberedAgent(chunks) ==
    IF chunks = <<>> THEN None
    ELSE IF IsDelegationEvent(Last(chunks))
         THEN TableLabel(Last(Last(chunks).tools).function_name)
    ELSE IF IsCompletionWithContent(Last(chunks)) THEN None
    ELSE RememberedAgent(SubSeq(chunks, 1, Len(chunks) - 1))

C17_CurrentAgentIsLatestDelegation == current_agent = RememberedAgent(consumed)

\* a second delegation overwrites the first, and run_completed keeps it
C17_Witness ==
    /\ Len(consumed) = 3
    /\ consumed[1] = Started(<<Tool(FnTaskAnalyzer)>>, "r1")
    /\ consumed[2] = Started(<<Tool(FnUnknownTarget)>>, "r1")
    /\ IsEvent(consumed[3], "run_completed")
    /\ execution_steps[1].title = <<"Delegating to ", "Task Analyzer">>
    /\ current_agent = "Agent"

(***************************************************************************)
(* C18: for a tool_call_completed event whose content contains the         *)
(* delegation prefix and two or more of the five keywords, the label is    *)
(* that of the keyword that comes first in the order task_analyzer,        *)
(* incident_analyzer, ticket_creation, root_cause_analysis,                *)
(* resolution_discovery, wherever the keywords stand in the content and    *)
(* whatever current agent is remembered.                                   *)
(***************************************************************************)
FirstInOrder(S) == CHOOSE i \in S : \A j \in S : i <= j

C18_FirstKeywordInFixedOrder ==
    (Pulled /\ IsCompletionWithContent(Last(consumed))
       /\ MentionsPrefix(Str(Last(consumed).content))
       /\ Cardinality(KeysIn(Str(Last(consumed).content))) >= 2)
    => /\ execution_steps # <<>>
       /\ Last(execution_steps).title =
             CompletedTitle(Labels[FirstInOrder(KeysIn(Str(Last(consumed).content)))])

\* resolution_discovery stands before incident_analyzer in the content and the
\* ticket creation agent is remembered: the label is Incident Analyzer
C18_Witness ==
    /\ Len(consumed) = 2
    /\ consumed[1] = Started(<<Tool(<<Prefix, "ticket_creation">>)>>, "r1")
    /\ consumed[2] = Completed(StrContent(<<"resolution_discovery", Prefix,
                                            "incident_analyzer">>), "r1")
    /\ execution_steps[1].title = <<"Delegating to ", "Ticket Creation">>
    /\ execution_steps[2].title = CompletedTitle("Incident Analyzer")

(***************************************************************************)
(* C19: for a finite stream the run handler terminates: the chunks are     *)
(* pulled one at a time in arrival order and each is processed once; the   *)
(* run ends in exactly one of two final states, the final report rendered  *)
(* or the error shown; given that the stream ends or raises, one of them   *)
(* is eventually reached, and no chunk is pulled after it.                 *)
(***************************************************************************)
ReportRendered == final_report # "absent"

ErrorShown == error # None

C19_RunTerminates ==
    /\ [](~(ReportRendered /\ ErrorShown))
    /\ [](ReportRendered <=> pc = "finished")
    /\ [](ErrorShown <=> pc = "failed")
    /\ [](StepsInArrivalOrder /\ full_content = ConcatDeltas(consumed))
    /\ [][PullStep =>
            /\ ~ReportRendered /\ ~ErrorShown
            /\ SubSeq(consumed', 1, Len(consumed)) = consumed]_vars
    /\ [][(ReportRendered \/ ErrorShown) =>
            (consumed' = consumed \/ consumed' = <<>>)]_vars
    /\ (pc = "streaming") ~> (ReportRendered \/ ErrorShown)

\* a stream of three chunks was pulled to its end and the report rendered
C19_Witness ==
    /\ pc = "finished"
    /\ Len(consumed) = 3
    /\ ReportRendered
    /\ ~ErrorShown
    /\ full_content # <<>>
    /\ Len(execution_steps) = 2

====
